---- MODULE Spec2Model ----
(***************************************************************************)
(* ZotClip: clipboard monitoring and Zotero citation reformatting.         *)
(* Model of src/config.py (Config), src/clipboard.py (ClipboardFormatter)  *)
(* and the trigger path of src/main.py (ZotClipApp).                       *)
(*                                                                         *)
(* A text is a sequence of characters; a character is a one-element        *)
(* string, or a name for a character that has no plain spelling here.      *)
(***************************************************************************)
EXTENDS Integers, Sequences, FiniteSets, TLC

----------------------------------------------------------------------------
(* Characters *)

DQ == "\""       \* U+0022 straight double quote
SQ == "'"        \* U+0027 straight single quote
LDQ == "LDQ"     \* U+201C curly double opening quote
RDQ == "RDQ"     \* U+201D curly double closing quote
LSQ == "LSQ"     \* U+2018 curly single opening quote
RSQ == "RSQ"     \* U+2019 curly single closing quote
SP == " "
NL == "NL"       \* line feed

Alphabet ==
    {"a", "b", "l", SP, NL, DQ, SQ, LDQ, RDQ, LSQ, RSQ, "(", ")", "[", "]"}

\* Python's None: a value no text equals.
None == <<"None">>

\* characters str.strip() and the regex class \s remove / match
Whitespace == {SP, NL}

----------------------------------------------------------------------------
(* A backtracking regex matcher with Python's `re` priorities: a pattern   *)
(* is a sequence of tokens; greedy tokens try to consume first, lazy       *)
(* tokens try the rest of the pattern first; the first match found wins.   *)
(*   one   : exactly one character of `set`                                *)
(*   opt   : X?   (greedy)                                                 *)
(*   star  : X*   (greedy)                                                 *)
(*   lazy  : X*?  (lazy)                                                   *)
(*   open/close : start / end of capture group `g`                         *)
(*   end   : $ without MULTILINE (end, or before a final line feed)        *)
(***************************************************************************)

Tok(k, set, g) == [k |-> k, set |-> set, g |-> g]
One(set) == Tok("one", set, 0)
Opt(set) == Tok("opt", set, 0)
Star(set) == Tok("star", set, 0)
Lazy(set) == Tok("lazy", set, 0)
Open(g) == Tok("open", {}, g)
Close(g) == Tok("close", {}, g)
End == Tok("end", {}, 0)

NoMatch == [ok |-> FALSE, s1 |-> 0, e1 |-> 0, s2 |-> 0, e2 |-> 0]

SetCap(caps, k, g, p) ==
    IF k = "open"
    THEN IF g = 1 THEN [caps EXCEPT !.s1 = p] ELSE [caps EXCEPT !.s2 = p]
    ELSE IF g = 1 THEN [caps EXCEPT !.e1 = p] ELSE [caps EXCEPT !.e2 = p]

RECURSIVE Run(_, _, _, _, _)
\* match pat[i..] against s[p..]; caps holds the group bounds so far
Run(pat, s, i, p, caps) ==
    IF i > Len(pat) THEN [caps EXCEPT !.ok = TRUE]
    ELSE
      LET t == pat[i]
          here == p <= Len(s) /\ s[p] \in t.set
      IN CASE t.k = "one" ->
                IF here THEN Run(pat, s, i + 1, p + 1, caps) ELSE NoMatch
           [] t.k = "opt" ->
                LET r == IF here THEN Run(pat, s, i + 1, p + 1, caps)
                                 ELSE NoMatch
                IN IF r.ok THEN r ELSE Run(pat, s, i + 1, p, caps)
           [] t.k = "star" ->
                LET r == IF here THEN Run(pat, s, i, p + 1, caps)
                                 ELSE NoMatch
                IN IF r.ok THEN r ELSE Run(pat, s, i + 1, p, caps)
           [] t.k = "lazy" ->
                LET r == Run(pat, s, i + 1, p, caps)
                IN IF r.ok THEN r
                   ELSE IF here THEN Run(pat, s, i, p + 1, caps)
                   ELSE NoMatch
           [] t.k \in {"open", "close"} ->
                Run(pat, s, i + 1, p, SetCap(caps, t.k, t.g, p))
           [] OTHER ->     \* "end"
                IF p = Len(s) + 1 \/ (p = Len(s) /\ s[p] = NL)
                THEN Run(pat, s, i + 1, p, caps) ELSE NoMatch

\* re.Pattern.match: anchored at the start of the text
Match(pat, s) == Run(pat, s, 1, 1, NoMatch)

\* match.group(1), match.group(2)
Group1(m, s) == SubSeq(s, m.s1, m.e1 - 1)
Group2(m, s) == SubSeq(s, m.s2, m.e2 - 1)

RECURSIVE LStrip(_)
LStrip(s) ==
    IF s # <<>> /\ Head(s) \in Whitespace THEN LStrip(Tail(s)) ELSE s

RECURSIVE RStrip(_)
RStrip(s) ==
    IF s # <<>> /\ s[Len(s)] \in Whitespace
    THEN RStrip(SubSeq(s, 1, Len(s) - 1)) ELSE s

\* str.strip()
Strip(s) == RStrip(LStrip(s))

----------------------------------------------------------------------------
(* ClipboardFormatter: the patterns and reformat *)

\* the pattern with both quotes required: ^"([^"\n]+?)"\s* ...
ZOTERO_PATTERN_QuotedOnly ==
    << One({DQ}),
       Open(1), One(Alphabet \ {DQ, NL}), Lazy(Alphabet \ {DQ, NL}), Close(1),
       One({DQ}), Star(Whitespace),
       One({"("}), One({"["}), Lazy(Alphabet), One({"]"}), One({"("}),
       Lazy(Alphabet), One({")"}), One({")"}),
       Star(Whitespace),
       One({"("}), One({"["}), Lazy(Alphabet), One({"]"}), One({"("}),
       Open(2), One(Alphabet), Lazy(Alphabet), Close(2),
       One({")"}), One({")"}),
       End >>

\* ^"?([^"\n]+?)"?\s*\(\[.*?\]\(.*?\)\)\s*\(\[.*?\]\((.+?)\)\)$  (DOTALL)
ZOTERO_PATTERN ==
    << Opt({DQ}),
       Open(1), One(Alphabet \ {DQ, NL}), Lazy(Alphabet \ {DQ, NL}), Close(1),
       Opt({DQ}), Star(Whitespace),
       One({"("}), One({"["}), Lazy(Alphabet), One({"]"}), One({"("}),
       Lazy(Alphabet), One({")"}), One({")"}),
       Star(Whitespace),
       One({"("}), One({"["}), Lazy(Alphabet), One({"]"}), One({"("}),
       Open(2), One(Alphabet), Lazy(Alphabet), Close(2),
       One({")"}), One({")"}),
       End >>

\* ^["'“‘](.+?)["'”’]$
QUOTES_PATTERN ==
    << One({DQ, SQ, LDQ, LSQ}),
       Open(1), One(Alphabet \ {NL}), Lazy(Alphabet \ {NL}), Close(1),
       One({DQ, SQ, RDQ, RSQ}),
       End >>

PLAIN_TEXT == "plain_text"
MARKDOWN_REFERENCE == "markdown_reference"
OutputMode == {PLAIN_TEXT, MARKDOWN_REFERENCE}

matches_zotero_format(text) == Match(ZOTERO_PATTERN, text).ok

\* the title after .strip(), before quote stripping (clipboard.py 106)
RawTitle(text) == Strip(Group1(Match(ZOTERO_PATTERN, text), text))

\* the title after .strip() and quote stripping (clipboard.py 106, 110-112)
CleanTitle(text) ==
    LET m == Match(ZOTERO_PATTERN, text)
        title == Strip(Group1(m, text))
        tm == Match(QUOTES_PATTERN, title)
    IN IF tm.ok THEN Group1(tm, title) ELSE title

\* the link after .strip() (clipboard.py 107)
PdfLink(text) == Strip(Group2(Match(ZOTERO_PATTERN, text), text))

\* reformat with the two modes taken for each other
reformat_Swapped(text, mode) ==
    IF ~Match(ZOTERO_PATTERN, text).ok THEN None
    ELSE IF mode = MARKDOWN_REFERENCE THEN CleanTitle(text)
    ELSE IF mode = PLAIN_TEXT
         THEN <<"[">> \o CleanTitle(text) \o <<"]", "(">> \o PdfLink(text)
              \o <<")">>
    ELSE None

\* reformat, given the value self.config.get_mode() returned
reformat(text, mode) ==
    IF ~Match(ZOTERO_PATTERN, text).ok THEN None
    ELSE IF mode = PLAIN_TEXT THEN CleanTitle(text)
    ELSE IF mode = MARKDOWN_REFERENCE
         THEN <<"[">> \o CleanTitle(text) \o <<"]", "(">> \o PdfLink(text)
              \o <<")">>
    ELSE None

----------------------------------------------------------------------------
(* Config: the preference record on disk and in memory *)

\* A parsed JSON value: a keyed record (t = "dict") with its 'mode' entry,
\* or any other JSON value (list, string, number, null).  Missing: no 'mode'
\* key.  "bogus": a value that is none of the two mode tokens.
Missing == "<missing>"
ModeValues == {Missing, "bogus", PLAIN_TEXT, MARKDOWN_REFERENCE}
Dict(v) == [t |-> "dict", mode |-> v]
NonDict == [t |-> "list", mode |-> Missing]
JsonValues == {Dict(v) : v \in ModeValues} \cup {NonDict}

\* The preference file: absent; present but open() raises IOError; content
\* that is not JSON (JSONDecodeError), among it an empty or truncated file;
\* bytes that are not UTF-8 (UnicodeDecodeError); or a JSON document.
NoFile == [kind |-> "none", val |-> NonDict]
Unreadable == [kind |-> "ioerror", val |-> NonDict]
BadJson == [kind |-> "badjson", val |-> NonDict]
BadUtf8 == [kind |-> "badutf8", val |-> NonDict]
JsonFile(v) == [kind |-> "json", val |-> v]
Files == {NoFile, Unreadable, BadJson, BadUtf8} \cup {JsonFile(v) : v \in JsonValues}

\* Config._load_config: [raised, val]
_load_config(f) ==
    IF f.kind = "json" THEN [raised |-> FALSE, val |-> f.val]
    ELSE IF f.kind = "badutf8" THEN [raised |-> TRUE, val |-> NonDict]
    ELSE [raised |-> FALSE, val |-> Dict(PLAIN_TEXT)]

\* Config.get_mode: [raised, val]; self.config.get raises AttributeError on
\* a value that is not a dict
get_mode(cfg) ==
    IF cfg.t # "dict" THEN [raised |-> TRUE, val |-> Missing]
    ELSE IF cfg.mode \in OutputMode THEN [raised |-> FALSE, val |-> cfg.mode]
    ELSE [raised |-> FALSE, val |-> PLAIN_TEXT]

\* main.py 89, 95: the `checked` state of the two mode menu items, asked
\* whenever the menu is shown; [raised, val]
plain_text_item_checked(cfg) ==
    [raised |-> get_mode(cfg).raised, val |-> get_mode(cfg).val = PLAIN_TEXT]
markdown_item_checked(cfg) ==
    [raised |-> get_mode(cfg).raised,
     val |-> get_mode(cfg).val = MARKDOWN_REFERENCE]

\* Config._save_config: how the write ends.  "ok": written; "open_fails":
\* open() raises IOError, the file is as before; "write_fails": the file was
\* opened (truncated) and the write raises IOError.
SaveOutcomes == {"ok", "open_fails", "write_fails"}

_save_config(cfg, f, how) ==
    IF how = "ok" THEN [file |-> JsonFile(cfg), warned |-> FALSE]
    ELSE IF how = "open_fails" THEN [file |-> f, warned |-> TRUE]
    ELSE [file |-> BadJson, warned |-> TRUE]

\* line 62 left for after the save: memory is as before
AfterAssign_Deferred(cfg, m) == cfg

\* config.py 62: self.config['mode'] = mode.value
AfterAssign(cfg, m) == [cfg EXCEPT !.mode = m]

\* set_mode that keeps the new value only when the file was written
set_mode_SaveFirst(cfg, f, m, how) ==
    IF cfg.t # "dict"
    THEN [config |-> cfg, file |-> f, raised |-> TRUE, warned |-> FALSE]
    ELSE LET new == [cfg EXCEPT !.mode = m]
             sv == _save_config(new, f, how)
         IN [config |-> IF sv.warned THEN cfg ELSE new, file |-> sv.file,
             raised |-> FALSE, warned |-> sv.warned]

\* Config.set_mode: item assignment raises TypeError on a value that is not
\* a dict; otherwise memory first, then the file
set_mode(cfg, f, m, how) ==
    IF cfg.t # "dict"
    THEN [config |-> cfg, file |-> f, raised |-> TRUE, warned |-> FALSE]
    ELSE LET new == [cfg EXCEPT !.mode = m]
             sv == _save_config(new, f, how)
         IN [config |-> new, file |-> sv.file, raised |-> FALSE,
             warned |-> sv.warned]

----------------------------------------------------------------------------
(* ClipboardFormatter: clipboard access and process_clipboard *)

\* get_clipboard_text: the text on the clipboard; None when the clipboard
\* holds no text (clip = None) or the access raised (ok = FALSE)
get_clipboard_text(clipboard, ok) == IF ok THEN clipboard ELSE None

\* set_clipboard_text: the clipboard afterwards; an access that raised
\* leaves it as it was (the exception is printed, not raised)
set_clipboard_text(clipboard, text, ok) == IF ok THEN text ELSE clipboard

\* Python truth value of an Optional[str]
Truthy(x) == x # None /\ x # <<>>

\* the test of line 130 without its comparison with last-seen
NoNewContent_EmptyOnly(current_text, lastc) == ~Truthy(current_text)

\* clipboard.py 130: not current_text or current_text == last
NoNewContent(current_text, lastc) == ~Truthy(current_text) \/ current_text = lastc

\* the test of line 147 without its truth test of reformatted
ShouldWrite_Differs(reformatted, current_text) == reformatted # current_text

\* clipboard.py 147: reformatted and reformatted != current_text
ShouldWrite(reformatted, current_text) ==
    Truthy(reformatted) /\ reformatted # current_text

\* clipboard.py 154-158: the calls made, in order, and the callbacks whose
\* exception was caught.  A callback is "ok" or "raises" (an Exception).
\* a notification loop that a raising callback ends
RECURSIVE NotifyFrom_StopAtRaise(_, _, _, _)
NotifyFrom_StopAtRaise(cbs, i, original, reformatted) ==
    IF i > Len(cbs) THEN [calls |-> <<>>, caught |-> <<>>]
    ELSE LET rest == IF cbs[i] = "raises" THEN [calls |-> <<>>, caught |-> <<>>]
                     ELSE NotifyFrom_StopAtRaise(cbs, i + 1, original, reformatted)
         IN [calls |-> << <<i, original, reformatted>> >> \o rest.calls,
             caught |-> IF cbs[i] = "raises" THEN <<i>> \o rest.caught
                        ELSE rest.caught]

RECURSIVE NotifyFrom(_, _, _, _)
NotifyFrom(cbs, i, original, reformatted) ==
    IF i > Len(cbs) THEN [calls |-> <<>>, caught |-> <<>>]
    ELSE LET rest == NotifyFrom(cbs, i + 1, original, reformatted)
         IN [calls |-> << <<i, original, reformatted>> >> \o rest.calls,
             caught |-> IF cbs[i] = "raises" THEN <<i>> \o rest.caught
                        ELSE rest.caught]

Notify(cbs, original, reformatted) == NotifyFrom(cbs, 1, original, reformatted)

\* texts the user may copy: two citations (a quoted title; a title that is
\* only whitespace), the two outputs of the first one, and an empty text
CitQuoted ==
    <<DQ, "a", "b", DQ, SP, "(", "[", "a", "]", "(", "b", ")", ")", SP,
      "(", "[", "l", "]", "(", "l", ")", ")">>
CitBlank ==
    <<SP, "(", "[", "]", "(", "b", ")", ")", "(", "[", "]", "(", "l", ")", ")">>
PlainAb == <<"a", "b">>
LinkAb == <<"[", "a", "b", "]", "(", "l", ")">>
UserTexts == {CitQuoted, CitBlank, PlainAb, LinkAb, <<>>}

\* what the clipboard may hold after a copy: a text, or no text (None)
ClipContents == UserTexts \cup {None}

\* The texts the clipboard can hold: those copied and what reformat makes of
\* them.  The two tables hold matches_zotero_format and reformat over these
\* texts, computed once.
KnownTexts ==
    UserTexts \cup ({reformat(t, m) : t \in UserTexts, m \in OutputMode} \ {None})
MatchesTable == [t \in KnownTexts |-> matches_zotero_format(t)]
ReformatTable == [t \in KnownTexts |-> [m \in OutputMode |-> reformat(t, m)]]

Matches(text) ==
    IF text \in KnownTexts THEN MatchesTable[text]
    ELSE matches_zotero_format(text)
Reformat(text, mode) ==
    IF text \in KnownTexts /\ mode \in OutputMode THEN ReformatTable[text][mode]
    ELSE reformat(text, mode)

\* line 135 left out: last-seen stays what it was
LastAfterExamine_Stale(current_text, lastc) == lastc

\* clipboard.py 135: self._last_clipboard_content = current_text
LastAfterExamine(current_text, lastc) == current_text

\* line 149 left out: last-seen stays the text that was read
LastAfterWrite_Stale(reformatted, current_text) == current_text

\* clipboard.py 149: self._last_clipboard_content = reformatted
LastAfterWrite(reformatted, current_text) == reformatted

\* process_clipboard as one sequential run: everything it does, given the
\* clipboard, last-seen, the config, the callbacks and whether the read and
\* the write access succeed.
\*   text: what get_clipboard_text returned;  examined: line 135 reached;
\*   recognized: matches;  wrote: the text handed to set_clipboard_text
\*   (None: no write);  raised: an exception left process_clipboard.

\* clipboard.py 130-133: the early return
Skipped(current_text, clipboard, lastc) ==
    [text |-> current_text, examined |-> FALSE, recognized |-> FALSE,
     raised |-> FALSE, reformatted |-> None, wrote |-> None,
     writeOk |-> FALSE, clip |-> clipboard, last |-> lastc,
     calls |-> <<>>, caught |-> <<>>, outcome |-> "Unchanged"]

\* clipboard.py 135-142 when matches is false
Examined(current_text, clipboard, lastc) ==
    [Skipped(current_text, clipboard, lastc) EXCEPT
        !.examined = TRUE,
        !.last = LastAfterExamine(current_text, lastc),
        !.outcome = "NotACitation"]

\* clipboard.py 148-158: the write-back, last-seen, the callbacks
WriteBack(current_text, reformatted, clipboard, lastc, n, writeOk) ==
    [Examined(current_text, clipboard, lastc) EXCEPT
        !.recognized = TRUE,
        !.reformatted = reformatted,
        !.wrote = reformatted,
        !.writeOk = writeOk,
        !.clip = set_clipboard_text(clipboard, reformatted, writeOk),
        !.last = LastAfterWrite(reformatted, current_text),
        !.calls = n.calls,
        !.caught = n.caught,
        !.outcome = "Reformatted"]

\* clipboard.py 147: write back, or leave everything as it is
Decide(current_text, reformatted, clipboard, lastc, cbs, writeOk) ==
    IF ShouldWrite(reformatted, current_text)
    THEN WriteBack(current_text, reformatted, clipboard, lastc,
                   Notify(cbs, current_text, reformatted), writeOk)
    ELSE [Examined(current_text, clipboard, lastc) EXCEPT
             !.recognized = TRUE,
             !.reformatted = reformatted,
             !.outcome = "Unchanged"]

\* clipboard.py 143: reformat calls get_mode, whose exception leaves
\* process_clipboard
Recognized(current_text, gm, clipboard, lastc, cbs, writeOk) ==
    IF gm.raised
    THEN [Examined(current_text, clipboard, lastc) EXCEPT
             !.recognized = TRUE, !.raised = TRUE, !.outcome = "Unchanged"]
    ELSE Decide(current_text, Reformat(current_text, gm.val), clipboard,
                lastc, cbs, writeOk)

\* clipboard.py 130-142
Process(current_text, clipboard, lastc, cfg, cbs, writeOk) ==
    IF NoNewContent(current_text, lastc)
    THEN Skipped(current_text, clipboard, lastc)
    ELSE IF ~Matches(current_text)
    THEN Examined(current_text, clipboard, lastc)
    ELSE Recognized(current_text, get_mode(cfg), clipboard, lastc, cbs, writeOk)

\* clipboard.py 125
process_clipboard(clipboard, lastc, cfg, cbs, readOk, writeOk) ==
    Process(get_clipboard_text(clipboard, readOk), clipboard, lastc, cfg, cbs,
            writeOk)

\* process_clipboard of a formatter built over a preference store whose
\* get_mode returns `mode` (ClipboardFormatter.__init__ takes the store as
\* its argument; reformat asks it at line 114)
ProcessUnder(current_text, mode, clipboard, lastc, cbs, writeOk) ==
    IF NoNewContent(current_text, lastc)
    THEN Skipped(current_text, clipboard, lastc)
    ELSE IF ~Matches(current_text)
    THEN Examined(current_text, clipboard, lastc)
    ELSE Decide(current_text, Reformat(current_text, mode), clipboard, lastc,
                cbs, writeOk)

process_clipboard_under(clipboard, lastc, mode, cbs, readOk, writeOk) ==
    ProcessUnder(get_clipboard_text(clipboard, readOk), mode, clipboard, lastc,
                 cbs, writeOk)

----------------------------------------------------------------------------
(* The program as a state machine *)

MaxCallbacks == 2
MaxThreads == 2

VARIABLES
    phase,      \* "constructed" (ZotClipApp built), "running", "crashed"
    file,       \* the preference file
    config,     \* Config.config
    clip,       \* the OS clipboard
    last,       \* ClipboardFormatter._last_clipboard_content
    callbacks,  \* ClipboardFormatter._callbacks
    op,         \* the operation that led to this state
    cur,        \* the process_clipboard run that just ended
    prev,       \* the run before it, nothing but set_mode in between
    modeSince,  \* set_mode was called since the last run ended
    setm,       \* the last set_mode call
    threads,    \* the worker threads on_copy started, each with its locals;
                \* thread 0 is the key listener's thread
    since,      \* writes and callback calls since the last copy
    fn          \* one application of reformat to a text built from parts

vars == <<phase, file, config, clip, last, callbacks, op, cur, prev,
          modeSince, setm, threads, since, fn>>

Idle == [pc |-> "idle", text |-> None, reformatted |-> None, i |-> 0]

NoParts == [quoting |-> "none", core |-> <<>>, gap1 |-> <<>>, group1 |-> <<>>,
            gap2 |-> <<>>, link |-> <<>>, tail |-> <<>>]

NoFn == [pc |-> "none", parts |-> NoParts, text |-> None, mode |-> Missing,
         matched |-> FALSE, title |-> None, link |-> None, out |-> None]

\* triggers: copy triggers the key listener detected; runs: process_clipboard
\* invocations that began
NoneSince == [writes |-> 0, calls |-> [i \in 1..MaxCallbacks |-> 0],
              triggers |-> 0, runs |-> 0]

NoRun ==
    [ran |-> FALSE, text |-> None, examined |-> FALSE, recognized |-> FALSE,
     raised |-> FALSE, reformatted |-> None, wrote |-> None,
     writeOk |-> FALSE, calls |-> <<>>, caught |-> <<>>,
     outcome |-> "Unchanged", readOk |-> FALSE, mode |-> Missing,
     modeSince |-> FALSE]

NoPrev == [ran |-> FALSE, text |-> None, outcome |-> "Unchanged",
           readOk |-> FALSE]

\* pc: where a set_mode call that runs step by step stands; old: the mode
\* in memory when it began
NoSet == [m |-> Missing, how |-> "none", raised |-> FALSE, warned |-> FALSE,
          pc |-> "idle", old |-> Missing]

\* a set_mode call that is no longer the latest operation
Settled(sm) == [sm EXCEPT !.how = "none", !.raised = FALSE, !.warned = FALSE]

\* ZotClipApp.__init__: Config() loads the file (an exception of the load
\* ends the program), ClipboardFormatter(config) starts with last-seen ""
\* and no callbacks.
Constructed(files, clips) ==
    /\ file \in files
    /\ clip \in clips
    /\ config = _load_config(file).val
    /\ phase = IF _load_config(file).raised THEN "crashed" ELSE "constructed"
    /\ last = <<>>
    /\ callbacks = <<>>
    /\ op = "init"
    /\ cur = NoRun
    /\ prev = NoPrev
    /\ modeSince = FALSE
    /\ setm = NoSet
    /\ threads = [w \in 0..MaxThreads |-> Idle]
    /\ since = NoneSince

\* The engine with mode switching: the preference file is absent or holds
\* markdown_reference, and every write of the file succeeds.
EngineFiles == {NoFile, JsonFile(Dict(MARKDOWN_REFERENCE))}

Init == Constructed(EngineFiles, ClipContents) /\ fn = NoFn

\* ClipboardFormatter.add_callback, called by the owner of the formatter
\* before the application runs; kind: what the callback does when called
add_callback(kind) ==
    /\ phase = "constructed"
    /\ Len(callbacks) < MaxCallbacks
    /\ callbacks' = Append(callbacks, kind)
    /\ op' = "add_callback"
    /\ UNCHANGED <<phase, file, config, clip, last, cur, prev, modeSince, setm,
                   threads, since, fn>>

\* ZotClipApp.run up to icon.run(): get_mode_display_name() calls get_mode,
\* whose exception ends the program before the key listener is set up
run ==
    /\ phase = "constructed"
    /\ phase' = IF get_mode(config).raised THEN "crashed" ELSE "running"
    /\ op' = "run"
    /\ UNCHANGED <<file, config, clip, last, callbacks, cur, prev, modeSince,
                   setm, threads, since, fn>>

\* something outside the engine puts t on the clipboard
UserCopy(t) ==
    /\ phase = "running"
    /\ clip' = t
    /\ op' = "copy"
    /\ cur' = NoRun
    /\ prev' = NoPrev
    /\ modeSince' = FALSE
    /\ setm' = Settled(setm)
    /\ since' = NoneSince
    /\ UNCHANGED <<phase, file, config, last, callbacks, threads, fn>>

\* one copy trigger whose worker runs process_clipboard to its end before
\* anything else happens
ProcessClipboard(readOk, writeOk) ==
    /\ phase = "running"
    /\ LET r == process_clipboard(clip, last, config, callbacks, readOk, writeOk)
       IN /\ clip' = r.clip
          /\ last' = r.last
          /\ cur' = [ran |-> TRUE, text |-> r.text, examined |-> r.examined,
                     recognized |-> r.recognized, raised |-> r.raised,
                     reformatted |-> r.reformatted, wrote |-> r.wrote,
                     writeOk |-> r.writeOk, calls |-> r.calls,
                     caught |-> r.caught, outcome |-> r.outcome,
                     readOk |-> readOk, mode |-> get_mode(config).val,
                     modeSince |-> modeSince]
          /\ prev' = [ran |-> cur.ran, text |-> cur.text,
                      outcome |-> cur.outcome, readOk |-> cur.readOk]
    /\ modeSince' = FALSE
    /\ op' = "process"
    /\ setm' = Settled(setm)
    /\ UNCHANGED <<phase, file, config, callbacks, threads, since, fn>>

\* the menu items set_plain_text / set_markdown_reference: Config.set_mode
SetMode(m, how) ==
    /\ phase = "running"
    /\ LET r == set_mode(config, file, m, how)
       IN /\ config' = r.config
          /\ file' = r.file
          /\ setm' = [NoSet EXCEPT !.m = m, !.how = how, !.raised = r.raised,
                                    !.warned = r.warned]
    /\ modeSince' = TRUE
    /\ op' = "set_mode"
    /\ UNCHANGED <<phase, clip, last, callbacks, cur, prev, threads, since, fn>>

Next ==
    \/ \E kind \in {"ok", "raises"} : add_callback(kind)
    \/ run
    \/ \E t \in ClipContents : UserCopy(t)
    \/ \E readOk, writeOk \in BOOLEAN : ProcessClipboard(readOk, writeOk)
    \/ \E m \in OutputMode : SetMode(m, "ok")

Spec == Init /\ [][Next]_vars

----------------------------------------------------------------------------
(* The preference store: every content of the preference file, every way   *)
(* the write of it ends, one citation on the clipboard, no callbacks.      *)

InitStore == Constructed(Files, {CitQuoted}) /\ fn = NoFn

NextStore ==
    \/ run
    \/ UserCopy(CitQuoted)
    \/ ProcessClipboard(TRUE, TRUE)
    \/ \E m \in OutputMode, how \in SaveOutcomes : SetMode(m, how)

SpecStore == InitStore /\ [][NextStore]_vars

----------------------------------------------------------------------------
(* Mode changes between copies: after a run that ended Reformatted and a   *)
(* set_mode, the user copies the same citation again.  Every write to the  *)
(* clipboard and to the preference file succeeds.                          *)

\* the citation of the last run is put on the clipboard again; what is
\* known of that run and of the set_mode after it is kept
CopyAgain ==
    /\ phase = "running"
    /\ cur.ran
    /\ cur.outcome = "Reformatted"
    /\ modeSince
    /\ clip' = cur.text
    /\ op' = "copy_again"
    /\ UNCHANGED <<phase, file, config, last, callbacks, cur, prev, modeSince,
                   setm, threads, since, fn>>

InitModeSwitch == Constructed(EngineFiles, {CitQuoted, CitBlank}) /\ fn = NoFn

NextModeSwitch ==
    \/ run
    \/ \E t \in {CitQuoted, CitBlank} : UserCopy(t)
    \/ CopyAgain
    \/ \E readOk \in BOOLEAN : ProcessClipboard(readOk, TRUE)
    \/ \E m \in OutputMode : SetMode(m, "ok")

SpecModeSwitch == InitModeSwitch /\ [][NextModeSwitch]_vars

----------------------------------------------------------------------------
(* The formatter over a preference store given to it: ClipboardFormatter   *)
(* takes its store as an argument and asks it for the mode in reformat.    *)
(* Here the store answers fn.mode, one of the two modes or a value that is *)
(* neither (Config.get_mode itself never answers such a value).            *)

OtherMode == "other_mode"
StoreAnswers == OutputMode \cup {OtherMode}

InitFallback ==
    /\ Constructed({NoFile}, ClipContents)
    /\ \E m \in StoreAnswers : fn = [NoFn EXCEPT !.pc = "store", !.mode = m]

\* one copy trigger whose worker runs process_clipboard to its end
ProcessClipboardUnder(readOk, writeOk) ==
    /\ phase = "running"
    /\ fn.pc = "store"
    /\ LET r == process_clipboard_under(clip, last, fn.mode, callbacks, readOk,
                                        writeOk)
       IN /\ clip' = r.clip
          /\ last' = r.last
          /\ cur' = [ran |-> TRUE, text |-> r.text, examined |-> r.examined,
                     recognized |-> r.recognized, raised |-> r.raised,
                     reformatted |-> r.reformatted, wrote |-> r.wrote,
                     writeOk |-> r.writeOk, calls |-> r.calls,
                     caught |-> r.caught, outcome |-> r.outcome,
                     readOk |-> readOk, mode |-> fn.mode,
                     modeSince |-> modeSince]
          /\ prev' = [ran |-> cur.ran, text |-> cur.text,
                      outcome |-> cur.outcome, readOk |-> cur.readOk]
    /\ modeSince' = FALSE
    /\ op' = "process"
    /\ setm' = Settled(setm)
    /\ UNCHANGED <<phase, file, config, callbacks, threads, since, fn>>

NextFallback ==
    \/ \E kind \in {"ok", "raises"} : add_callback(kind)
    \/ run
    \/ \E t \in ClipContents : UserCopy(t)
    \/ \E readOk, writeOk \in BOOLEAN : ProcessClipboardUnder(readOk, writeOk)

SpecFallback == InitFallback /\ [][NextFallback]_vars

----------------------------------------------------------------------------
(* The worker threads: on_copy starts one thread per trigger, and the      *)
(* threads run process_clipboard statement by statement, with no lock.     *)
(* Clipboard accesses succeed here, so that what two threads do to the     *)
(* same content comes from their interleaving alone.                       *)

seq == <<phase, file, config, cur, prev, modeSince, setm, fn>>

Goto(w, pc) == [threads EXCEPT ![w].pc = pc]

\* ZotClipApp.on_copy: threading.Thread(target=process_clipboard).start()
on_copy(w) ==
    /\ phase = "running"
    /\ threads[w].pc = "idle"
    /\ threads' = [threads EXCEPT ![w] = [Idle EXCEPT !.pc = "read"]]
    /\ op' = "on_copy"
    /\ UNCHANGED <<seq, clip, last, callbacks, since>>

\* clipboard.py 125
t_read(w) ==
    /\ threads[w].pc = "read"
    /\ threads' = [threads EXCEPT ![w].pc = "check",
                                  ![w].text = get_clipboard_text(clip, TRUE)]
    /\ op' = "t_read"
    /\ UNCHANGED <<seq, clip, last, callbacks, since>>

\* clipboard.py 130-133
t_check(w) ==
    /\ threads[w].pc = "check"
    /\ threads' = IF NoNewContent(threads[w].text, last)
                  THEN [threads EXCEPT ![w] = Idle]
                  ELSE Goto(w, "mark")
    /\ op' = "t_check"
    /\ UNCHANGED <<seq, clip, last, callbacks, since>>

\* clipboard.py 135
t_mark(w) ==
    /\ threads[w].pc = "mark"
    /\ last' = LastAfterExamine(threads[w].text, last)
    /\ threads' = Goto(w, "match")
    /\ op' = "t_mark"
    /\ UNCHANGED <<seq, clip, callbacks, since>>

\* clipboard.py 138-147: recognition, reformat (get_mode is read here) and
\* the decision to write
t_match(w) ==
    /\ threads[w].pc = "match"
    /\ LET text == threads[w].text
           gm == get_mode(config)
           r == IF Matches(text) /\ ~gm.raised THEN Reformat(text, gm.val)
                ELSE None
       IN threads' = IF Matches(text) /\ ~gm.raised /\ ShouldWrite(r, text)
                     THEN [threads EXCEPT ![w].pc = "write",
                                          ![w].reformatted = r]
                     ELSE [threads EXCEPT ![w] = Idle]
    /\ op' = "t_match"
    /\ UNCHANGED <<seq, clip, last, callbacks, since>>

\* clipboard.py 148
t_write(w) ==
    /\ threads[w].pc = "write"
    /\ clip' = set_clipboard_text(clip, threads[w].reformatted, TRUE)
    /\ since' = [since EXCEPT !.writes = @ + 1]
    /\ threads' = Goto(w, "setlast")
    /\ op' = "t_write"
    /\ UNCHANGED <<seq, last, callbacks>>

\* clipboard.py 149
t_setlast(w) ==
    /\ threads[w].pc = "setlast"
    /\ last' = LastAfterWrite(threads[w].reformatted, threads[w].text)
    /\ threads' = [threads EXCEPT ![w].pc = "notify", ![w].i = 1]
    /\ op' = "t_setlast"
    /\ UNCHANGED <<seq, clip, callbacks, since>>

\* clipboard.py 154-158: one callback per step
t_notify(w) ==
    /\ threads[w].pc = "notify"
    /\ IF threads[w].i > Len(callbacks)
       THEN /\ threads' = [threads EXCEPT ![w] = Idle]
            /\ since' = since
       ELSE /\ threads' = [threads EXCEPT ![w].i = @ + 1]
            /\ since' = [since EXCEPT !.calls[threads[w].i] = @ + 1]
    /\ op' = "t_notify"
    /\ UNCHANGED <<seq, clip, last, callbacks>>

\* texts copied while threads run
ThreadTexts == {CitQuoted, PlainAb}

InitThreads ==
    /\ Constructed({NoFile, JsonFile(Dict(MARKDOWN_REFERENCE))}, ThreadTexts)
    /\ fn = NoFn

NextThreads ==
    \/ add_callback("ok")
    \/ run
    \/ \E t \in ThreadTexts : UserCopy(t)
    \/ \E w \in 1..MaxThreads :
          \/ on_copy(w)
          \/ t_read(w)
          \/ t_check(w)
          \/ t_mark(w)
          \/ t_match(w)
          \/ t_write(w)
          \/ t_setlast(w)
          \/ t_notify(w)

SpecThreads == InitThreads /\ [][NextThreads]_vars

----------------------------------------------------------------------------
(* A menu action next to a worker thread: set_mode runs statement by       *)
(* statement on the menu's thread (one menu action at a time) while a      *)
(* worker runs process_clipboard.  A dict item assignment and a dict       *)
(* lookup are each one step of the interpreter.                            *)

Worker == 1

\* config.py 62
sm_assign(m) ==
    /\ phase = "running"
    /\ setm.pc = "idle"
    /\ config.t = "dict"
    /\ config' = AfterAssign(config, m)
    /\ setm' = [NoSet EXCEPT !.m = m, !.old = get_mode(config).val,
                             !.pc = "open"]
    /\ op' = "sm_assign"
    /\ UNCHANGED <<phase, file, clip, last, callbacks, cur, prev, modeSince,
                   threads, since, fn>>

\* config.py 47: open(CONFIG_FILE, 'w') truncates the file, or raises
sm_open(how) ==
    /\ setm.pc = "open"
    /\ IF how = "open_fails"
       THEN /\ file' = file
            /\ setm' = [setm EXCEPT !.pc = "idle", !.how = how, !.warned = TRUE]
       ELSE /\ file' = BadJson
            /\ setm' = [setm EXCEPT !.pc = "dump"]
    /\ op' = "sm_open"
    /\ UNCHANGED <<phase, config, clip, last, callbacks, cur, prev, modeSince,
                   threads, since, fn>>

\* config.py 48-50: json.dump writes the configuration, or raises
sm_dump(how) ==
    /\ setm.pc = "dump"
    /\ file' = _save_config(config, file, how).file
    /\ setm' = [setm EXCEPT !.pc = "idle", !.how = how,
                            !.warned = _save_config(config, file, how).warned]
    /\ op' = "sm_dump"
    /\ UNCHANGED <<phase, config, clip, last, callbacks, cur, prev, modeSince,
                   threads, since, fn>>

InitMenu == Constructed(EngineFiles, {CitQuoted}) /\ fn = NoFn

NextMenu ==
    \/ run
    \/ UserCopy(CitQuoted)
    \/ on_copy(Worker)
    \/ t_read(Worker)
    \/ t_check(Worker)
    \/ t_mark(Worker)
    \/ t_match(Worker)
    \/ t_write(Worker)
    \/ t_setlast(Worker)
    \/ t_notify(Worker)
    \/ \E m \in OutputMode : sm_assign(m)
    \/ \E how \in {"ok", "open_fails"} : sm_open(how)
    \/ \E how \in {"ok", "write_fails"} : sm_dump(how)

SpecMenu == InitMenu /\ [][NextMenu]_vars

----------------------------------------------------------------------------
(* The key listener and the threads it starts: on_press runs on_copy on    *)
(* the listener's thread, which sleeps and starts one thread per trigger;  *)
(* the k-th thread started is thread k.  A clipboard access of a thread    *)
(* may fail, and may take any time (the thread does not take its step).    *)

Listener == 0

\* process_clipboard called where the thread is made: it runs on the
\* thread of the caller
StartThread_Inline(ths, w) == [ths EXCEPT ![Listener].pc = "read"]

\* main.py 132-134: Thread(target=process_clipboard), daemon, start()
StartThread(ths, w) ==
    [ths EXCEPT ![w] = [Idle EXCEPT !.pc = "read"], ![Listener].pc = "idle"]

\* main.py 152-163, 123-129: Ctrl+C seen, on_copy entered, time.sleep(0.3)
on_press ==
    /\ phase = "running"
    /\ threads[Listener].pc = "idle"
    /\ since.triggers < MaxThreads
    /\ threads' = Goto(Listener, "sleep")
    /\ since' = [since EXCEPT !.triggers = @ + 1]
    /\ op' = "on_press"
    /\ UNCHANGED <<seq, clip, last, callbacks>>

\* main.py 132-134
start_thread ==
    /\ threads[Listener].pc = "sleep"
    /\ threads' = StartThread(threads, since.triggers)
    /\ op' = "start_thread"
    /\ UNCHANGED <<seq, clip, last, callbacks, since>>

\* clipboard.py 125, with a clipboard read that may fail
w_read(w, ok) ==
    /\ threads[w].pc = "read"
    /\ threads' = [threads EXCEPT ![w].pc = "check",
                                  ![w].text = get_clipboard_text(clip, ok)]
    /\ since' = [since EXCEPT !.runs = @ + 1]
    /\ op' = "w_read"
    /\ UNCHANGED <<seq, clip, last, callbacks>>

\* clipboard.py 148, with a clipboard write that may fail
w_write(w, ok) ==
    /\ threads[w].pc = "write"
    /\ clip' = set_clipboard_text(clip, threads[w].reformatted, ok)
    /\ since' = [since EXCEPT !.writes = @ + 1]
    /\ threads' = Goto(w, "setlast")
    /\ op' = "w_write"
    /\ UNCHANGED <<seq, last, callbacks>>

InitListener ==
    /\ Constructed(EngineFiles, ThreadTexts \cup {None})
    /\ fn = NoFn

NextListener ==
    \/ add_callback("ok")
    \/ run
    \/ on_press
    \/ start_thread
    \/ \E w \in 1..MaxThreads :
          \/ \E ok \in BOOLEAN : w_read(w, ok)
          \/ t_check(w)
          \/ t_mark(w)
          \/ t_match(w)
          \/ \E ok \in BOOLEAN : w_write(w, ok)
          \/ t_setlast(w)
          \/ t_notify(w)

SpecListener == InitListener /\ [][NextListener]_vars

----------------------------------------------------------------------------
(* reformat as a function: applied once to a text put together from a      *)
(* title, its quoting, two link groups and the spacing between them.       *)

TitleCores ==
    { <<"a">>, <<"a", "b">>, <<"a", SP, "b">>, <<SP>>,
      <<SQ, "a", SQ>>, <<LDQ, "a", RDQ>>, <<LSQ, "a", RSQ>>,
      <<LDQ, "a", RSQ>>, <<SQ, "a">>, <<SQ, SQ, "a", SQ, SQ>>,
      <<"a", "(", "[", "]", "(", ")", ")">> }
Quotings == {"none", "both", "open", "close"}
Gaps == {<<>>, <<SP>>}
Group1s == { <<"(", "[", "a", "]", "(", "b", ")", ")">>,
             <<"(", "[", "]", "(", ")", ")">> }
Links == { <<"l">>, <<SP, "l", SP>>, <<"l", ")">>, <<>> }
Tails == {<<>>, <<NL>>}

Parts ==
    [quoting : Quotings, core : TitleCores, gap1 : Gaps, group1 : Group1s,
     gap2 : Gaps, link : Links, tail : Tails]

\* the text a tuple of parts stands for
Render(p) ==
    (IF p.quoting \in {"both", "open"} THEN <<DQ>> ELSE <<>>)
    \o p.core
    \o (IF p.quoting \in {"both", "close"} THEN <<DQ>> ELSE <<>>)
    \o p.gap1 \o p.group1 \o p.gap2
    \o <<"(", "[", "b", "]", "(">> \o p.link \o <<")", ")">>
    \o p.tail

\* texts without two parenthesized link groups: plain text, one bare link,
\* a title with one group
OneGroup == <<"a", "b", SP, "(", "[", "a", "]", "(", "b", ")", ")">>
NonCitations == {PlainAb, LinkAb, OneGroup}

\* the variant of a text with a double-quoted title and one space before
\* each group, and what reformat extracts from it
Canonical(p) == [p EXCEPT !.quoting = "both", !.gap1 = <<SP>>, !.gap2 = <<SP>>]
CanonicalResults ==
    [c \in {Canonical(p) : p \in Parts} |->
        [matched |-> matches_zotero_format(Render(c)),
         title |-> IF matches_zotero_format(Render(c))
                   THEN CleanTitle(Render(c)) ELSE None,
         link |-> IF matches_zotero_format(Render(c))
                  THEN PdfLink(Render(c)) ELSE None]]

InitReformat ==
    /\ Constructed({NoFile}, {None})
    /\ \E m \in OutputMode :
          \/ \E p \in Parts :
                fn = [NoFn EXCEPT !.pc = "in", !.parts = p, !.text = Render(p),
                                  !.mode = m]
          \/ \E t \in NonCitations :
                fn = [NoFn EXCEPT !.pc = "in", !.text = t, !.mode = m]

\* ClipboardFormatter.reformat on fn.text, under the mode fn.mode
ApplyReformat ==
    /\ fn.pc = "in"
    /\ fn' = [fn EXCEPT
                !.pc = "out",
                !.matched = matches_zotero_format(fn.text),
                !.title = IF matches_zotero_format(fn.text)
                          THEN CleanTitle(fn.text) ELSE None,
                !.link = IF matches_zotero_format(fn.text)
                         THEN PdfLink(fn.text) ELSE None,
                !.out = reformat(fn.text, fn.mode)]
    /\ op' = "reformat"
    /\ UNCHANGED <<phase, file, config, clip, last, callbacks, cur, prev,
                   modeSince, setm, threads, since>>

NextReformat == ApplyReformat

SpecReformat == InitReformat /\ [][NextReformat]_vars

----------------------------------------------------------------------------
(* Properties *)

\* the text is a recognised citation
IsCitation(text) == Truthy(text) /\ Matches(text)

\* C1: two process_clipboard runs in a row on a citation x whose
\* transformation under the active mode differs from x, with no copy and no
\* mode change in between: the first run is Reformatted, the second is
\* Unchanged, writes nothing and calls no observer.
C1_Idempotence ==
    (/\ prev.ran /\ cur.ran /\ ~cur.modeSince
     /\ IsCitation(prev.text)
     /\ Reformat(prev.text, cur.mode) # prev.text)
    => /\ prev.outcome = "Reformatted"
       /\ cur.outcome = "Unchanged"
       /\ cur.wrote = None
       /\ cur.calls = <<>>

\* C2: of two consecutive runs with no copy in between, the second writes
\* nothing to the clipboard and calls no observer, whatever the first did
\* and whether or not its write-back succeeded.  Stated for a first run
\* whose clipboard read succeeded: after a read that failed the first run
\* has seen nothing, and the second is the first to examine the text.
C2_NoRetrigger ==
    (prev.ran /\ prev.readOk /\ cur.ran)
    => (cur.wrote = None /\ cur.calls = <<>>)

\* C3: a run that reads a non-empty text which is not a citation and differs
\* from last-seen ends NotACitation: the clipboard is left as it was, no
\* observer is called, and last-seen becomes that text.
C3_NotACitation ==
    [][(/\ op' = "process"
        /\ Truthy(cur'.text)
        /\ ~Matches(cur'.text)
        /\ cur'.text # last)
       => /\ cur'.outcome = "NotACitation"
          /\ cur'.wrote = None
          /\ clip' = clip
          /\ cur'.calls = <<>>
          /\ last' = cur'.text]_vars

C3_Witness ==
    /\ op = "process"
    /\ cur.outcome = "NotACitation"
    /\ cur.text = LinkAb
    /\ last = LinkAb

\* C4: for one copied content, however many worker threads overlap, the
\* content is written back at most once and each observer is called at
\* most once.
C4_Serialized ==
    /\ since.writes <= 1
    /\ \A i \in 1..MaxCallbacks : since.calls[i] <= 1

\* C5: for a recognised citation with cleaned title t and link l, reformat
\* returns exactly t in plain-text mode and exactly "[" t "](" l ")" in
\* markdown-reference mode.
C5_ModeDeterminism ==
    (fn.pc = "out" /\ fn.matched)
    => /\ fn.mode = PLAIN_TEXT => fn.out = fn.title
       /\ fn.mode = MARKDOWN_REFERENCE
            => fn.out = <<"[">> \o fn.title \o <<"]", "(">> \o fn.link \o <<")">>

C5_Witness ==
    /\ fn.pc = "out"
    /\ fn.matched
    /\ fn.mode = MARKDOWN_REFERENCE
    /\ fn.title = PlainAb
    /\ fn.out = LinkAb

\* C6: constructing the store never fails and get_mode never fails; get_mode
\* returns one of the two modes: the persisted one when the file holds a
\* valid mode token, PlainText in every other case.
C6_GetModeNeverFails ==
    /\ phase # "crashed"
    /\ ~get_mode(config).raised
    /\ get_mode(config).val \in OutputMode
    /\ op = "init" =>
         get_mode(config).val =
           IF file.kind = "json" /\ file.val.t = "dict"
              /\ file.val.mode \in OutputMode
           THEN file.val.mode ELSE PLAIN_TEXT

\* C7 as stated: after set_mode(m) every get_mode returns m, a failed write
\* is a warning and not an exception, and after a failed write the durable
\* record differs from the value in memory.
C7_Original ==
    /\ setm.m # Missing =>
         (~get_mode(config).raised /\ get_mode(config).val = setm.m)
    /\ setm.warned => (~setm.raised /\ file # JsonFile(config))

\* C7 as amended: after set_mode(m) every get_mode, and every run of
\* process_clipboard, sees m until the next set_mode; a failed write is a
\* warning and not an exception, and leaves the file as it was or truncated
\* (so it need not hold the value in memory); a write that succeeds leaves
\* the file holding the value in memory.
C7_SetModeTakesEffect ==
    [][/\ setm'.m # Missing =>
            (~get_mode(config').raised /\ get_mode(config').val = setm'.m)
       /\ (op' = "process" /\ setm'.m # Missing) => cur'.mode = setm'.m
       /\ op' = "set_mode" =>
            /\ ~setm'.raised
            /\ setm'.warned <=> setm'.how # "ok"
            /\ setm'.warned => file' \in {file, BadJson}
            /\ ~setm'.warned => file' = JsonFile(config')]_vars

C7_Witness ==
    /\ op = "set_mode"
    /\ setm.how = "open_fails"
    /\ setm.warned
    /\ setm.m = MARKDOWN_REFERENCE
    /\ get_mode(config).val = MARKDOWN_REFERENCE
    /\ file = JsonFile(Dict(PLAIN_TEXT))

\* C8: a Reformatted run calls every registered observer exactly once with
\* (original, transformed), in registration order, also after an observer
\* that raised, and no exception leaves the run; any other run calls none.
C8_Observers ==
    cur.ran =>
      /\ ~cur.raised
      /\ IF cur.outcome = "Reformatted"
         THEN cur.calls = [i \in 1..Len(callbacks) |->
                             <<i, cur.text, cur.reformatted>>]
         ELSE cur.calls = <<>>

C8_Witness ==
    /\ cur.ran
    /\ cur.outcome = "Reformatted"
    /\ Len(callbacks) = 2
    /\ callbacks[1] = "raises"
    /\ Len(cur.calls) = 2
    /\ cur.caught = <<1>>

\* C9: last-seen changes only in runs of process_clipboard; a run that
\* short-circuits (empty or absent text, or text equal to last-seen) leaves
\* it as it was; a run that ends NotACitation or Unchanged after recognition
\* leaves it equal to the text read; a Reformatted run leaves it equal to
\* the transformed text it handed to the clipboard write.
C9_LastSeenLifecycle ==
    [][/\ last' # last => op' = "process"
       /\ op' = "process" =>
            /\ cur'.examined <=> ~(~Truthy(cur'.text) \/ cur'.text = last)
            /\ ~cur'.examined => last' = last
            /\ (cur'.examined /\ cur'.outcome # "Reformatted")
                 => last' = cur'.text
            /\ cur'.outcome = "Reformatted"
                 => (last' = cur'.reformatted /\ cur'.wrote = cur'.reformatted)]_vars

C9_Witness ==
    /\ op = "process"
    /\ cur.outcome = "Reformatted"
    /\ cur.text = CitQuoted
    /\ last = PlainAb

\* C10: no clipboard failure raises out of a run; a failed read leaves
\* last-seen, the clipboard and the observers untouched; after a failed
\* write-back no observer is called.
C10_SoftFailures ==
    [][op' = "process" =>
         /\ ~cur'.raised
         /\ ~cur'.readOk =>
              (last' = last /\ clip' = clip /\ cur'.calls = <<>>)
         /\ (cur'.wrote # None /\ ~cur'.writeOk) => cur'.calls = <<>>]_vars

\* C11: a run that recognises the text but whose transformed text equals the
\* text read, or whose preference store answers a mode that is none of the
\* two, writes nothing to the clipboard, calls no observer, and leaves
\* last-seen equal to the text read; it ends Unchanged.
C11_NoOpFallback ==
    [][(/\ op' = "process"
        /\ cur'.recognized
        /\ \/ cur'.reformatted = cur'.text
           \/ cur'.mode \notin OutputMode)
       => /\ cur'.outcome = "Unchanged"
          /\ cur'.wrote = None
          /\ clip' = clip
          /\ cur'.calls = <<>>
          /\ last' = cur'.text]_vars

C11_Witness ==
    /\ op = "process"
    /\ cur.recognized
    /\ cur.mode = OtherMode
    /\ cur.text = CitQuoted
    /\ cur.outcome = "Unchanged"
    /\ last = CitQuoted
    /\ clip = CitQuoted
    /\ Len(callbacks) = 1

\* C12: in every state in which the store exists exactly one mode is
\* active (get_mode answers one of the two modes) and exactly one of the two
\* mode menu items is checked; the value in memory and the preference file
\* change in set_mode only, never in a run of process_clipboard, a get_mode
\* call or a callback.
C12_ModeFrame ==
    /\ [](phase # "crashed" =>
            /\ ~get_mode(config).raised
            /\ get_mode(config).val \in OutputMode
            /\ ~plain_text_item_checked(config).raised
            /\ ~markdown_item_checked(config).raised
            /\ plain_text_item_checked(config).val
                 # markdown_item_checked(config).val)
    /\ [][op' # "set_mode" => (config' = config /\ file' = file)]_vars

\* the mode whose output the worker computed in the step: the worker went
\* from recognition to the write with Reformat(text, m)
UsedMode(w, m) ==
    /\ threads[w].pc = "match"
    /\ threads'[w].pc = "write"
    /\ threads'[w].reformatted = Reformat(threads[w].text, m)

\* C13: a worker that asks for the mode next to a set_mode gets the old or
\* the new mode and nothing else; set_mode changes the value in memory
\* before it touches the file, so a worker that asks once the value in
\* memory is set gets the new mode, also while the file is being written.
C13_ModeRace ==
    [][/\ (op' = "t_match" /\ threads'[Worker].pc = "write") =>
            \/ UsedMode(Worker, PLAIN_TEXT)
            \/ UsedMode(Worker, MARKDOWN_REFERENCE)
       /\ (op' = "t_match" /\ threads'[Worker].pc = "write"
           /\ setm.m # Missing) =>
            /\ UsedMode(Worker, setm.old) \/ UsedMode(Worker, setm.m)
            /\ UsedMode(Worker, setm.m)
       /\ file' # file =>
            /\ setm.pc \in {"open", "dump"}
            /\ get_mode(config).val = setm.m]_vars

C13_Witness ==
    /\ op = "t_match"
    /\ setm.pc = "dump"
    /\ file = BadJson
    /\ setm.old = PLAIN_TEXT
    /\ setm.m = MARKDOWN_REFERENCE
    /\ threads[Worker].pc = "write"
    /\ threads[Worker].reformatted = LinkAb

\* C14: a run that recognises the text and whose transformed text for the
\* active mode differs from the text read ends Reformatted: it hands the
\* transformed text to the clipboard write, last-seen becomes the
\* transformed text and every observer is called; also when the cleaned
\* title is empty (a title of whitespace only) in plain-text mode.
C14_Reformatted ==
    (/\ op = "process"
     /\ cur.recognized
     /\ Reformat(cur.text, cur.mode) # cur.text)
    => /\ cur.outcome = "Reformatted"
       /\ cur.wrote = Reformat(cur.text, cur.mode)
       /\ last = Reformat(cur.text, cur.mode)
       /\ cur.calls = [i \in 1..Len(callbacks) |->
                         <<i, cur.text, Reformat(cur.text, cur.mode)>>]

\* C15: title cleanup takes at most one layer of quotes off the trimmed
\* title, and only when its first and last characters are a pair of one
\* family (' with ', curly double open with curly double close, curly single
\* open with curly single close; a straight double quote never is part of a
\* title); a pair of one family around at least one character is taken
\* off; quotes of different families, or a quote at one end only, leave
\* the title as it is; a doubly quoted title keeps its inner layer.
C15_QuoteStripping ==
    (fn.pc = "out" /\ fn.matched) =>
      LET raw == RawTitle(fn.text)
          n == Len(raw)
          inner == SubSeq(raw, 2, n - 1)
          pairs == {<<DQ, DQ>>, <<SQ, SQ>>, <<LDQ, RDQ>>, <<LSQ, RSQ>>}
          paired == n >= 3 /\ <<raw[1], raw[n]>> \in pairs
      IN /\ paired => fn.title = inner
         /\ ~paired => fn.title = raw

C17_HandOff ==
    /\ threads[Listener].pc \in {"idle", "sleep"}
    /\ threads[Listener].text = None
    /\ threads[Listener].reformatted = None
    /\ since.runs + Cardinality({w \in 1..MaxThreads : threads[w].pc = "read"})
         = since.triggers - (IF threads[Listener].pc = "sleep" THEN 1 ELSE 0)
    /\ (\A w \in 0..MaxThreads : threads[w].pc = "idle")
         => since.runs = since.triggers
    /\ (phase = "running" /\ threads[Listener].pc = "idle"
        /\ since.triggers < MaxThreads) => ENABLED on_press
    /\ threads[Listener].pc = "sleep" => ENABLED start_thread

C17_Witness ==
    /\ since.triggers = 2
    /\ threads[1].pc = "read"
    /\ threads[2].pc = "idle"
    /\ threads[Listener].pc = "idle"
    /\ since.runs = 1
    /\ since.writes = 1

\* C18: in sequential runs, a run that writes to the clipboard writes the
\* non-empty transformation, under the active mode, of the text it read
\* from the clipboard itself; that text matched the citation grammar and
\* differs from what is written.  A run whose read gave no text, an empty
\* text or the last-seen text writes nothing.  A run writes at most once:
\* the clipboard after it is what it was or the one text written.
C18_WriteDiscipline ==
    [][op' = "process" =>
         /\ cur'.wrote # None =>
              /\ Truthy(cur'.wrote)
              /\ cur'.readOk
              /\ cur'.text = clip
              /\ Matches(cur'.text)
              /\ cur'.wrote = Reformat(cur'.text, cur'.mode)
              /\ cur'.wrote # cur'.text
         /\ (~Truthy(cur'.text) \/ cur'.text = last) =>
              (cur'.wrote = None /\ clip' = clip)
         /\ clip' # clip => clip' = cur'.wrote]_vars

C18_Witness ==
    /\ op = "process"
    /\ cur.readOk
    /\ cur.text = CitQuoted
    /\ cur.mode = MARKDOWN_REFERENCE
    /\ cur.wrote = LinkAb
    /\ clip = LinkAb

\* C19: a run computes all it writes from one value of the mode, the one
\* in force when it runs.  After a run that ended Reformatted and left the
\* transformed text on the clipboard, a set_mode followed by a trigger with
\* the clipboard unchanged rewrites nothing: the run is a no-op.  Copying
\* the same citation again after the set_mode gives a run that is
\* Reformatted under the new mode.
C19_ModeAtInvocation ==
    [][/\ (op' = "process" /\ cur'.wrote # None) =>
            /\ cur'.mode = get_mode(config).val
            /\ cur'.wrote = Reformat(cur'.text, cur'.mode)
       /\ (/\ op' = "process" /\ op = "set_mode"
           /\ cur.ran /\ cur.outcome = "Reformatted"
           /\ clip = cur.reformatted) =>
            /\ cur'.outcome = "Unchanged"
            /\ cur'.wrote = None
            /\ cur'.calls = <<>>
            /\ clip' = clip
       /\ (op' = "process" /\ op = "copy_again" /\ cur'.readOk) =>
            /\ cur'.outcome = "Reformatted"
            /\ cur'.mode = setm.m
            /\ cur'.wrote = Reformat(cur.text, setm.m)]_vars

====
